---------------------------- MODULE Spec2Model ----------------------------
(***************************************************************************)
(* Worker-isolated speaker diarization (the useDiarization hook with its   *)
(* embedded worker script): the engine inside the worker (VAD, smoothing   *)
(* window, online clustering, segment lifecycle) and the supervising hook  *)
(* on the main thread (effect lifecycle, start/stop, heartbeat, restart).  *)
(*                                                                         *)
(* Numbers.  An rms is fixed-point in units of 1e-4, so the absolute VAD    *)
(* minimum 0.0045 is 45.  The noise floor, which moves by half a percent   *)
(* per frame, is kept in units of 1e-7 (FloorScale units per rms unit), so *)
(* its initial value 0.003 is 30000.                                       *)
(* Cepstral vectors are pairs of integers; a mean and an                   *)
(* EMA step round to the nearest unit.  Cosine distances are compared      *)
(* exactly (as fractions), never rounded.  Timestamps are milliseconds.    *)
(* Speaker ids 'S1', 'S2', ... are the integers 1, 2, ...; 0 is null.      *)
(* What Meyda extracts from a frame (rms, mfcc) is the frame's content.    *)
(***************************************************************************)
EXTENDS Integers, Sequences, FiniteSets, TLC

VARIABLES
  \* ---- worker global scope (the most recently created worker) ----
  eng,                 \* meyda, featureBuffer, centroids, currentSpeakerId, ... cfg
  toWorker,            \* messages posted to the worker, not yet handled
  toMain,              \* messages posted by the worker, not yet handled
  \* ---- browser objects ----
  wLive,               \* workers created and not terminated
  attached,            \* workers whose onmessage handler is set
  timers,              \* heartbeat closures of the live intervals: id -> [gotPong, gen]
  pending,             \* start() invocations suspended at `await addModule`
  nextId,              \* number of start() invocations that created a worker
  \* ---- refs and state of the hook ----
  workerRef, workletNodeRef, heartbeatIntervalRef,
  segmentsRef, totalSamplesRef, restartAttemptsRef, activeSpeaker,
  \* ---- the effect and its props ----
  props,               \* [active, expectedSpeakers, startTime]
  gen,                 \* number of effect runs; an effect run g is cancelled once gen > g
  \* ---- what the caller and the console have seen ----
  callerSegments,      \* the argument of the latest onNewSegments call
  callerEvents,        \* kinds of notification the caller has received
  gaveUp,              \* "Diarization failed to restart after multiple attempts." was logged
  \* ---- history ----
  hist,                \* counters of restarts, misses, emitted ids (see HistInit)
  \* ---- the audio source (environment) ----
  env,                 \* frames made so far, the last frame kind, kind changes
  \* ---- the other hooks of the repository ----
  same,                \* the same-thread useDiarization hook (hooks/useDiarization.ts)
  rec                  \* the useSpeechRecognition hook and its recognition object

\* The worker-isolated hook, its worker and its audio source.
workerVars == << eng, toWorker, toMain, wLive, attached, timers, pending, nextId,
                 workerRef, workletNodeRef, heartbeatIntervalRef, segmentsRef,
                 totalSamplesRef, restartAttemptsRef, activeSpeaker, props, gen,
                 callerSegments, callerEvents, gaveUp, hist, env >>

\* The hooks that share nothing with it.
otherHooks == << same, rec >>

vars == << workerVars, otherHooks >>

-----------------------------------------------------------------------------
(* Program constants *)

CHUNK_SIZE == 4096
MAX_FEATURE_BUFFER_LENGTH == 12
SILENCE_THRESHOLD_FRAMES == 10
MAX_RESTARTS == 3
DefaultSampleRate == 16000
DefaultExpectedSpeakers == 2
NoiseFloorInit == 30000
ABS_MIN == 45

(* Bounds of the model *)

\* Spec: the whole hook, short audio.
MaxFrames == 7         \* frames the audio source delivers in one behaviour
MaxChanges == 1        \* times the audio source changes the kind of frame
MaxStarts == 4         \* start() invocations that create a worker
MaxEffects == 3        \* effect runs (mount and dependency changes)
\* SpecEngine: one session without heartbeat, long audio.
EngFrames == 24
EngChanges == 2
\* SpecConfig: one session without heartbeat under any configuration, short audio.
CfgFrames == 6
\* SpecSup: one session, hardly any audio, many restarts.
SupFrames == 2
SupStarts == 5
MaxInbox == 1          \* audio frames queued at the worker
MaxOutbox == 2         \* messages queued at the main thread before the worker goes on
\* SpecQuiet: one session without heartbeat, speech and then long silence.
QuietFrames == 18
QuietChanges == 2
\* SpecFrames: one session without heartbeat, any kind of frame.
AnyFrames == 9
AnyChanges == 2
\* SpecBacklog: one session without heartbeat, the worker's queue unconstrained.
BacklogFrames == 5
\* SpecTwice: two sessions without heartbeat, one after the other.
TwiceFrames == 12
\* SpecTurns: one session without heartbeat, two speakers and then silence.
TurnFrames == 25
TurnChanges == 2
\* SpecCluster: one session without heartbeat, two speakers or a pause.
ClusterFrames == 20
ClusterChanges == 2
\* SpecPair: one session without heartbeat, one speaker and then another.
PairFrames == 15
PairChanges == 1
\* SpecVad: one session without heartbeat, long faint audio and then a frame at the
\* absolute minimum.
VadFrames == 112

-----------------------------------------------------------------------------
(* Inputs *)

VecA == << 100, 0 >>
VecB == << 0, 100 >>

\* The rms of a frame that holds a NaN sample: every comparison with it is false
\* and !rms is true.
NaN == -1

\* A frame: its length in samples, whether Meyda throws on it, and what Meyda
\* returns for it otherwise: rms (units of 1e-4) and the mfcc vector.
Silent == [len |-> CHUNK_SIZE, throws |-> FALSE, rms |-> 20,   mfcc |-> VecA]
Zero   == [len |-> CHUNK_SIZE, throws |-> FALSE, rms |-> 0,    mfcc |-> << 0, 0 >>]
LoudA  == [len |-> CHUNK_SIZE, throws |-> FALSE, rms |-> 1000, mfcc |-> VecA]
LoudB  == [len |-> CHUNK_SIZE, throws |-> FALSE, rms |-> 1000, mfcc |-> VecB]
Empty  == [len |-> 0,          throws |-> FALSE, rms |-> 0,    mfcc |-> << 0, 0 >>]
NaNFrame == [len |-> CHUNK_SIZE, throws |-> FALSE, rms |-> NaN, mfcc |-> << 0, 0 >>]
Faulty == [len |-> CHUNK_SIZE, throws |-> TRUE,  rms |-> 1000, mfcc |-> VecA]
\* Frames around the absolute VAD minimum 0.0045.
Faint    == [len |-> CHUNK_SIZE, throws |-> FALSE, rms |-> 1,  mfcc |-> VecA]
AtMin    == [len |-> CHUNK_SIZE, throws |-> FALSE, rms |-> 45, mfcc |-> VecA]
UnderMin == [len |-> CHUNK_SIZE, throws |-> FALSE, rms |-> 44, mfcc |-> VecA]

FrameKinds == { Silent, Zero, LoudA, LoudB, Empty, NaNFrame, Faulty, Faint, AtMin, UnderMin }

ExpectedSpeakersInputs == { -1, 0, 1, 2 }
ValidExpectedSpeakers == { 1, 2 }
StartTimes == { 1000 }

-----------------------------------------------------------------------------
(* Arithmetic helpers *)

Max(a, b) == IF a > b THEN a ELSE b

\* Nearest integer to n / d, for d > 0 (halves away from zero).
RoundDiv(n, d) ==
  IF n >= 0 THEN (2 * n + d) \div (2 * d) ELSE 0 - ((2 * (0 - n) + d) \div (2 * d))

\* a / b < c / d for a, c >= 0 and b, d > 0, without forming a * d or c * b.
RECURSIVE FracLess(_, _, _, _)
FracLess(a, b, c, d) ==
  LET qa == a \div b
      qc == c \div d
      ra == a % b
      rc == c % d
  IN IF qa # qc THEN qa < qc
     ELSE IF rc = 0 THEN FALSE
     ELSE IF ra = 0 THEN TRUE
     ELSE FracLess(d, rc, b, ra)

Dot(v1, v2) == v1[1] * v2[1] + v1[2] * v2[2]

\* The cosine of the angle between v1 and v2 as a sign and a squared fraction;
\* cosineDistance is 1 - cosine, and 1 when a vector is zero (cosine 0).
Cosine(v1, v2) ==
  LET dot == Dot(v1, v2)
      m1 == Dot(v1, v1)
      m2 == Dot(v2, v2)
  IN IF m1 = 0 \/ m2 = 0 \/ dot = 0 THEN [sgn |-> 0, num |-> 0, den |-> 1]
     ELSE [sgn |-> IF dot > 0 THEN 1 ELSE -1, num |-> dot * dot, den |-> m1 * m2]

\* cosine x < cosine y
CosLess(x, y) ==
  IF x.sgn # y.sgn THEN x.sgn < y.sgn
  ELSE IF x.sgn = 0 THEN FALSE
  ELSE IF x.sgn = 1 THEN FracLess(x.num, x.den, y.num, y.den)
  ELSE FracLess(y.num, y.den, x.num, x.den)

\* cosineDistance(v1, v2) < cosineDistance(w1, w2)
DistLess(x, y) == CosLess(y, x)

AtOrOverChangeThreshold(x) == ~CosLess([sgn |-> 1, num |-> 9, den |-> 25], x)

\* cosineDistance > CHANGE_THRESHOLD (0.4), i.e. cosine < 0.6 = 3/5
OverChangeThreshold(x) == CosLess(x, [sgn |-> 1, num |-> 9, den |-> 25])

-----------------------------------------------------------------------------
(* The worker script *)

\* The worker's global scope right after the script has been evaluated.
EngineInit ==
  [ meyda |-> FALSE,
    featureBuffer |-> << >>,
    centroids |-> << >>,
    currentSpeakerId |-> 0,
    currentSegmentStartMs |-> 0,
    lastSpeechTimestamp |-> 0,
    silenceFrames |-> 0,
    noiseFloor |-> NoiseFloorInit,
    cfg |-> [expectedSpeakers |-> DefaultExpectedSpeakers, sampleRate |-> DefaultSampleRate] ]

\* A step of the worker: its new global scope and the messages it posted, in order.
Result(e, out) == [eng |-> e, out |-> out]

\* segmentQueue.push(segment); flushQueue(): the queue is empty between handlers,
\* so a pushed segment leaves in one 'segments' message of its own.
SegmentsMsg(speakerId, startMs, endMs) ==
  [type |-> "segments",
   payload |-> << [speakerId |-> speakerId, startMs |-> startMs, endMs |-> endMs] >>]

ActiveSpeakerMsg(speakerId) ==
  [type |-> "activeSpeaker", payload |-> [speakerId |-> speakerId]]

\* Whether a closed turn is queued for the caller.
KeepSegment(startMs, endMs) == endMs > startMs

EndCurrentSegment(e, timestamp) ==
  IF e.currentSpeakerId # 0
  THEN LET endTime == IF e.lastSpeechTimestamp > 0 THEN e.lastSpeechTimestamp ELSE timestamp
       IN Result([e EXCEPT !.currentSpeakerId = 0, !.lastSpeechTimestamp = 0],
                 IF KeepSegment(e.currentSegmentStartMs, endTime)
                 THEN << SegmentsMsg(e.currentSpeakerId, e.currentSegmentStartMs, endTime) >>
                 ELSE << >>)
  ELSE Result(e, << >>)

\* Units of the noise floor per unit of rms.
FloorScale == 1000

\* noiseFloor = noiseFloor * 0.995 + rms * 0.005
NoiseFloorUpdate(noiseFloor, rms) ==
  RoundDiv(995 * noiseFloor + 5 * rms * FloorScale, 1000)

BelowVadInclusive(rms, noiseFloor) ==
  2 * rms * FloorScale <= Max(5 * noiseFloor, 2 * ABS_MIN * FloorScale)

\* rms < Math.max(noiseFloor * 2.5, 0.0045), both sides doubled
BelowVad(rms, noiseFloor) ==
  2 * rms * FloorScale < Max(5 * noiseFloor, 2 * ABS_MIN * FloorScale)

\* featureBuffer after shift-if-full and push
PushFeature(buf, mfcc) ==
  Append(IF Len(buf) >= MAX_FEATURE_BUFFER_LENGTH THEN Tail(buf) ELSE buf, mfcc)

RECURSIVE SumVec(_)
SumVec(buf) ==
  IF buf = << >> THEN << 0, 0 >>
  ELSE LET r == SumVec(Tail(buf)) IN << Head(buf)[1] + r[1], Head(buf)[2] + r[2] >>

\* currentMean: the component-wise mean of the window
MeanVec(buf) ==
  LET s == SumVec(buf) IN << RoundDiv(s[1], Len(buf)), RoundDiv(s[2], Len(buf)) >>

\* cvec[d] = cvec[d] * (1 - alpha) + currentMean[d] * alpha, alpha = 0.02
Ema(cvec, mean) ==
  << RoundDiv(49 * cvec[1] + mean[1], 50), RoundDiv(49 * cvec[2] + mean[2], 50) >>

ClosestIdxLast(centroids, mean) ==
  LET D(i) == Cosine(mean, centroids[i].vector)
      IsMin(i) == \A j \in 1..Len(centroids) : ~DistLess(D(j), D(i))
  IN CHOOSE i \in 1..Len(centroids) :
       IsMin(i) /\ \A j \in (i + 1)..Len(centroids) : ~IsMin(j)

\* distances.indexOf(Math.min(...distances)): the first centroid at minimal distance
ClosestIdx(centroids, mean) ==
  LET D(i) == Cosine(mean, centroids[i].vector)
      IsMin(i) == \A j \in 1..Len(centroids) : ~DistLess(D(j), D(i))
  IN CHOOSE i \in 1..Len(centroids) : IsMin(i) /\ \A j \in 1..(i - 1) : ~IsMin(j)

CreatesSpeakerNever(centroids, mean, expectedSpeakers) == FALSE

CreatesSpeakerUncapped(centroids, mean, expectedSpeakers) ==
  OverChangeThreshold(Cosine(mean, centroids[ClosestIdx(centroids, mean)].vector))

\* minDistance > CHANGE_THRESHOLD && centroids.length < cfg.expectedSpeakers
CreatesSpeaker(centroids, mean, expectedSpeakers) ==
  /\ OverChangeThreshold(Cosine(mean, centroids[ClosestIdx(centroids, mean)].vector))
  /\ Len(centroids) < expectedSpeakers

SameSpeakerId(centroids) == Len(centroids)

\* 'S' + (centroids.length + 1)
NewSpeakerId(centroids) == Len(centroids) + 1

ClusterMovesAll(centroids, mean, expectedSpeakers) ==
  IF Len(centroids) = 0
  THEN [centroids |-> << [id |-> 1, vector |-> mean] >>, detected |-> 1]
  ELSE IF CreatesSpeaker(centroids, mean, expectedSpeakers)
  THEN [centroids |-> Append(centroids, [id |-> NewSpeakerId(centroids), vector |-> mean]),
        detected |-> NewSpeakerId(centroids)]
  ELSE [centroids |-> [i \in 1..Len(centroids) |->
                         [centroids[i] EXCEPT !.vector = Ema(@, mean)]],
        detected |-> centroids[ClosestIdx(centroids, mean)].id]

\* The clustering decision: the centroids afterwards and the detected speaker.
Cluster(centroids, mean, expectedSpeakers) ==
  IF Len(centroids) = 0
  THEN [centroids |-> << [id |-> 1, vector |-> mean] >>, detected |-> 1]
  ELSE IF CreatesSpeaker(centroids, mean, expectedSpeakers)
  THEN [centroids |-> Append(centroids, [id |-> NewSpeakerId(centroids), vector |-> mean]),
        detected |-> NewSpeakerId(centroids)]
  ELSE LET i == ClosestIdx(centroids, mean)
       IN [centroids |-> [centroids EXCEPT ![i].vector = Ema(@, mean)],
           detected |-> centroids[i].id]

DecideActiveFirst(e, t0ms) ==
  LET c == Cluster(e.centroids, MeanVec(e.featureBuffer), e.cfg.expectedSpeakers)
      e1 == [e EXCEPT !.centroids = c.centroids]
  IN IF c.detected # e1.currentSpeakerId
     THEN LET r == EndCurrentSegment(e1, t0ms)
          IN Result([r.eng EXCEPT !.currentSpeakerId = c.detected,
                                  !.currentSegmentStartMs = t0ms],
                    << ActiveSpeakerMsg(c.detected) >> \o r.out)
     ELSE Result(e1, << >>)

DecideQuietly(e, t0ms) ==
  LET c == Cluster(e.centroids, MeanVec(e.featureBuffer), e.cfg.expectedSpeakers)
      e1 == [e EXCEPT !.centroids = c.centroids]
  IN IF c.detected # e1.currentSpeakerId
     THEN LET r == EndCurrentSegment(e1, t0ms)
          IN Result([r.eng EXCEPT !.currentSpeakerId = c.detected,
                                  !.currentSegmentStartMs = t0ms],
                    r.out)
     ELSE Result(e1, << >>)

\* The part of processFrame after the window has enough fill.
Decide(e, t0ms) ==
  LET c == Cluster(e.centroids, MeanVec(e.featureBuffer), e.cfg.expectedSpeakers)
      e1 == [e EXCEPT !.centroids = c.centroids]
  IN IF c.detected # e1.currentSpeakerId
     THEN LET r == EndCurrentSegment(e1, t0ms)
          IN Result([r.eng EXCEPT !.currentSpeakerId = c.detected,
                                  !.currentSegmentStartMs = t0ms],
                    r.out \o << ActiveSpeakerMsg(c.detected) >>)
     ELSE Result(e1, << >>)

FalsyZeroOnly(x) == x = 0

\* !x for a number x
Falsy(x) == x = 0 \/ x = NaN

MeydaThrowsUnguarded(e, frame) == frame.throws

\* meyda.process() or meyda.get() throws: after the guard on the frame and on
\* meyda, before anything of the worker's scope is assigned.
MeydaThrows(e, frame) == frame.len # 0 /\ e.meyda /\ frame.throws

EnoughFillAlways(buf) == TRUE

\* !(featureBuffer.length < (MAX_FEATURE_BUFFER_LENGTH >> 1))
EnoughFill(buf) == Len(buf) >= MAX_FEATURE_BUFFER_LENGTH \div 2

ProcessFrame(e, frame, t0ms) ==
  IF frame.len = 0 \/ ~e.meyda THEN Result(e, << >>)  \* !frame.length || !meyda
  ELSE IF Falsy(frame.rms) THEN Result(e, << >>)       \* !features.rms
  ELSE
    LET nf == NoiseFloorUpdate(e.noiseFloor, frame.rms)
        e1 == [e EXCEPT !.noiseFloor = nf]
    IN IF BelowVad(frame.rms, nf)
       THEN LET e2 == [e1 EXCEPT !.silenceFrames = @ + 1]
            IN IF e2.silenceFrames > SILENCE_THRESHOLD_FRAMES
               THEN EndCurrentSegment(e2, t0ms)
               ELSE Result(e2, << >>)
       ELSE LET e2 == [e1 EXCEPT !.silenceFrames = 0,
                                 !.lastSpeechTimestamp = t0ms,
                                 !.featureBuffer = PushFeature(@, frame.mfcc)]
            IN IF EnoughFill(e2.featureBuffer)
               THEN Decide(e2, t0ms)
               ELSE Result(e2, << >>)

\* payload.expectedSpeakers || 2 : 0 (and NaN) is replaced, any other number is kept
ConfigExpectedSpeakers(n) == IF n = 0 THEN DefaultExpectedSpeakers ELSE n

ErrorMsg == [type |-> "error"]

OnThrowSilent(e) == Result(e, << >>)

\* catch (err) { self.postMessage({ type: 'error', payload: String(err) }) }
OnThrow(e) == Result(e, << ErrorMsg >>)

\* self.onmessage
WorkerOnMessage(e, msg) ==
  IF msg.type = "config"
  THEN Result([e EXCEPT !.cfg = [expectedSpeakers |-> ConfigExpectedSpeakers(msg.payload.expectedSpeakers),
                                 sampleRate |-> msg.payload.sampleRate],
                        !.meyda = TRUE],
              << [type |-> "ready"] >>)
  ELSE IF msg.type = "audio"
  THEN IF MeydaThrows(e, msg.payload.frame) THEN OnThrow(e)
       ELSE ProcessFrame(e, msg.payload.frame, msg.payload.t0ms)
  ELSE IF msg.type = "stop"
  THEN LET stopTs == IF "payload" \in DOMAIN msg /\ "t0ms" \in DOMAIN msg.payload
                       THEN msg.payload.t0ms ELSE e.lastSpeechTimestamp
           r == EndCurrentSegment(e, stopTs)
       IN Result([r.eng EXCEPT !.centroids = << >>, !.featureBuffer = << >>,
                               !.currentSpeakerId = 0, !.lastSpeechTimestamp = 0,
                               !.silenceFrames = 0],
                 r.out)
  ELSE IF msg.type = "ping"
  THEN Result(e, << [type |-> "pong"] >>)
  ELSE Result(e, << >>)

-----------------------------------------------------------------------------
(* The hook on the main thread *)

SampleRates == { 16000 }
\* context.sampleRate of the AudioContext the browser creates
ContextSampleRate == CHOOSE r \in SampleRates : TRUE

\* What one behaviour may use up, and the configurations it draws from.
\* `log` says whether the history keeps what each worker handled and posted.
Budget == [frames |-> MaxFrames, changes |-> MaxChanges, starts |-> MaxStarts,
           effects |-> MaxEffects, inbox |-> MaxInbox, outbox |-> MaxOutbox,
           expected |-> {2}, kinds |-> {Silent, LoudA}, log |-> FALSE]
\* The pipeline is FIFO, so the engine sees the same frames whatever the queues hold.
EngBudget == [frames |-> EngFrames, changes |-> EngChanges, starts |-> 1,
              effects |-> 1, inbox |-> 1, outbox |-> 2,
              expected |-> ValidExpectedSpeakers, kinds |-> {Silent, LoudA, LoudB},
              log |-> FALSE]
CfgBudget == [frames |-> CfgFrames, changes |-> 1, starts |-> 1,
              effects |-> 1, inbox |-> 1, outbox |-> 2,
              expected |-> ExpectedSpeakersInputs, kinds |-> {Silent, LoudA},
              log |-> FALSE]
SupBudget == [frames |-> SupFrames, changes |-> 1, starts |-> SupStarts,
              effects |-> 1, inbox |-> 1, outbox |-> 2,
              expected |-> {2}, kinds |-> {Silent, Faulty}, log |-> FALSE]
QuietBudget == [frames |-> QuietFrames, changes |-> QuietChanges, starts |-> 1,
                effects |-> 1, inbox |-> 1, outbox |-> 2,
                expected |-> {2}, kinds |-> {Silent, Zero, LoudA}, log |-> FALSE]
AnyBudget == [frames |-> AnyFrames, changes |-> AnyChanges, starts |-> 1,
              effects |-> 1, inbox |-> 1, outbox |-> 2,
              expected |-> {2}, kinds |-> {Silent, LoudA, Empty, NaNFrame, Faulty},
              log |-> FALSE]
BacklogBudget == [frames |-> BacklogFrames, changes |-> 1, starts |-> 1,
                  effects |-> 1, inbox |-> BacklogFrames, outbox |-> 2,
                  expected |-> {2}, kinds |-> {Silent, LoudA}, log |-> FALSE]
TwiceBudget == [frames |-> TwiceFrames, changes |-> 1, starts |-> 2,
                effects |-> 3, inbox |-> 1, outbox |-> 2,
                expected |-> {2}, kinds |-> {Silent, LoudA}, log |-> TRUE]

TurnBudget == [frames |-> TurnFrames, changes |-> TurnChanges, starts |-> 1,
               effects |-> 1, inbox |-> 1, outbox |-> 2,
               expected |-> {2}, kinds |-> {Silent, LoudA, LoudB}, log |-> FALSE]
ClusterBudget == [frames |-> ClusterFrames, changes |-> ClusterChanges, starts |-> 1,
                  effects |-> 1, inbox |-> 1, outbox |-> 2,
                  expected |-> ValidExpectedSpeakers, kinds |-> {Silent, LoudA, LoudB},
                  log |-> FALSE]
PairBudget == [frames |-> PairFrames, changes |-> PairChanges, starts |-> 1,
               effects |-> 1, inbox |-> 1, outbox |-> 2,
               expected |-> ValidExpectedSpeakers, kinds |-> {Silent, LoudA, LoudB},
               log |-> FALSE]
VadBudget == [frames |-> VadFrames, changes |-> 1, starts |-> 1,
              effects |-> 1, inbox |-> 1, outbox |-> 1,
              expected |-> {2}, kinds |-> {Faint, AtMin, UnderMin}, log |-> FALSE]

\* The run of quiet frames the worker is in: its length (counted up to one past
\* the silence threshold), whether a segment was open when it began, and the
\* segments and activeSpeaker messages posted during it.
NoRun == [len |-> 0, open |-> FALSE, segs |-> 0, actives |-> 0]

\* History of a session: restarts made in it, restarts and unanswered heartbeat
\* cycles since the latest pong (or the session's start), the speaker ids the
\* workers have posted, whether the newest worker has handled a message,
\* whether the engine the latest restart discarded had centroids, the run of
\* quiet frames, whether a malformed frame reached the worker while a segment was
\* open, the error messages posted and the kinds of message handled after one,
\* the timestamp of the latest frame posted, (if logged) what the previous
\* and the current worker handled and posted, message by message, and whether
\* the hook has handled a pong.
HistInit == [totalRestarts |-> 0, restartsSincePong |-> 0, missedSincePong |-> 0,
             emittedIds |-> {}, handled |-> FALSE, restartedDirty |-> FALSE,
             run |-> NoRun, malformed |-> FALSE, errors |-> 0, afterError |-> {},
             lastT0ms |-> 0, prevRun |-> << >>, curRun |-> << >>, answered |-> FALSE]

-----------------------------------------------------------------------------
(* The same-thread hook (hooks/useDiarization.ts; unnamed/part_004 is the   *)
(* same code with the constants written out).  Energies are in units of     *)
(* 1e-3, pitch and spectral centroid in Hz, similarities and relative       *)
(* differences in units of 1e-4, times in ms.                               *)

SILENCE_THRESHOLD == 10            \* 0.01
SILENCE_DURATION_MS == 500
FEATURE_WINDOW_SIZE == 10
SPEAKER_CHANGE_THRESHOLD == 3500   \* 0.35
MIN_SEGMENT_DURATION_MS == 300
SimilarityOne == 10000             \* 1.0

\* What calculateFeatures measures on a frame: a frame below the silence
\* threshold and two voices that differ in pitch and spectral centroid.
Hush == [energy |-> 5, pitch |-> 0, spectralCentroid |-> 0]
VoiceLow == [energy |-> 100, pitch |-> 100, spectralCentroid |-> 500]
VoiceHigh == [energy |-> 100, pitch |-> 300, spectralCentroid |-> 1000]
SameKinds == { Hush, VoiceLow, VoiceHigh }

\* The length of one frame of samples and the time between two frames.
SameFrameMs == 150

NoSameSegment == [speakerId |-> 0, startMs |-> 0, endMs |-> 0]

\* features.slice(-n)
LastN(s, n) == IF Len(s) <= n THEN s ELSE SubSeq(s, Len(s) - n + 1, Len(s))

RECURSIVE SumOf(_, _)
SumOf(fs, field) ==
  IF fs = << >> THEN 0 ELSE Head(fs)[field] + SumOf(Tail(fs), field)

\* |avg1 - avg2| / (max(avg1, avg2) || 1) for avg1 = s1 / l1, avg2 = s2 / l2.
RelativeDiff(s1, l1, s2, l2) ==
  LET a == s1 * l2
      b == s2 * l1
  IN IF Max(a, b) = 0 THEN 0
     ELSE RoundDiv(SimilarityOne * (Max(a, b) - (IF a > b THEN b ELSE a)), Max(a, b))

calculateSimilarity(features1, features2) ==
  IF features1 = << >> \/ features2 = << >> THEN 0
  ELSE LET l1 == Len(features1)
           l2 == Len(features2)
           energyDiff == RelativeDiff(SumOf(features1, "energy"), l1,
                                      SumOf(features2, "energy"), l2)
           pitchDiff == RelativeDiff(SumOf(features1, "pitch"), l1,
                                     SumOf(features2, "pitch"), l2)
           spectralDiff == RelativeDiff(SumOf(features1, "spectralCentroid"), l1,
                                        SumOf(features2, "spectralCentroid"), l2)
           distance == RoundDiv(2 * energyDiff + 4 * pitchDiff + 4 * spectralDiff, 10)
       IN Max(0, SimilarityOne - distance)

\* The forEach of detectSpeaker over the models from the i-th on: the first model
\* of the highest similarity above 0, as [match, similarity]; match 0 is null.
RECURSIVE BestMatchFrom(_, _, _, _)
BestMatchFrom(models, currentFeatures, i, best) ==
  IF i > Len(models) THEN best
  ELSE LET similarity == calculateSimilarity(
                           currentFeatures, LastN(models[i].features, FEATURE_WINDOW_SIZE))
       IN BestMatchFrom(models, currentFeatures, i + 1,
                        IF similarity > best.similarity
                        THEN [match |-> i, similarity |-> similarity] ELSE best)

BestMatch(models, currentFeatures) ==
  BestMatchFrom(models, currentFeatures, 1, [match |-> 0, similarity |-> 0])

NewModel(models, currentFeatures) ==
  Append(models, [id |-> Len(models) + 1, features |-> currentFeatures])

\* detectSpeaker: the models afterwards and the speaker id it returns.  The
\* models are a Map keyed by the ids S1, S2, ... in insertion order: a sequence.
detectSpeaker(models, currentFeatures, expectedSpeakers) ==
  IF Len(models) = 0 \/ Len(models) < expectedSpeakers
  THEN [models |-> NewModel(models, currentFeatures), id |-> Len(models) + 1]
  ELSE LET best == BestMatch(models, currentFeatures)
       IN IF best.similarity < SimilarityOne - SPEAKER_CHANGE_THRESHOLD
             /\ Len(models) < expectedSpeakers
          THEN [models |-> NewModel(models, currentFeatures), id |-> Len(models) + 1]
          ELSE IF best.match # 0
          THEN [models |-> [models EXCEPT ![best.match].features =
                              LastN(@, FEATURE_WINDOW_SIZE) \o currentFeatures],
                id |-> best.match]
          ELSE [models |-> models, id |-> 1]

KeepsSegmentStrict(startMs, endMs) == endMs - startMs > MIN_SEGMENT_DURATION_MS

\* The test of endCurrentSegment on the closed segment.
KeepsSegment(startMs, endMs) == endMs - startMs >= MIN_SEGMENT_DURATION_MS

\* endCurrentSegment(endTime) on the hook state h.  ended records what the
\* call did: the duration it closed, whether the list grew, whether a
\* segment is still open afterwards.
SameEndCurrentSegment(h, endTime) ==
  IF h.currentSegment = NoSameSegment THEN h
  ELSE LET segment == [h.currentSegment EXCEPT !.endMs = endTime]
           segs == IF KeepsSegment(segment.startMs, segment.endMs)
                   THEN Append(h.segments, segment) ELSE h.segments
           h1 == [h EXCEPT !.segments = segs,
                           !.currentSegment = NoSameSegment,
                           !.activeSpeaker = 0]
       IN [h1 EXCEPT !.ended = @ \cup
             {[duration |-> endTime - h.currentSegment.startMs,
               kept |-> Len(h1.segments) = Len(h.segments) + 1
                        /\ h1.segments[Len(h1.segments)] = segment,
               open |-> h1.currentSegment # NoSameSegment]}]

\* processAudioData on one frame, in the handler that captured expectedSpeakers,
\* at the time currentTime since startTime.
processAudioData(h, features, expectedSpeakers, currentTime) ==
  IF features.energy < SILENCE_THRESHOLD
  THEN LET h1 == [h EXCEPT !.silenceCount = @ + 1]
           silenceDuration == h1.silenceCount * SameFrameMs
       IN IF silenceDuration > SILENCE_DURATION_MS /\ h1.currentSegment # NoSameSegment
          THEN [SameEndCurrentSegment(h1, currentTime) EXCEPT !.featureBuffer = << >>]
          ELSE h1
  ELSE LET buf == LastN(Append(h.featureBuffer, features), FEATURE_WINDOW_SIZE)
           h1 == [h EXCEPT !.silenceCount = 0, !.featureBuffer = buf]
       IN IF Len(buf) < 3 THEN h1
          ELSE LET d == detectSpeaker(h1.models, buf, expectedSpeakers)
                   h2 == [h1 EXCEPT !.models = d.models,
                                    !.detected = [window |-> buf, models |-> h1.models,
                                                  expectedSpeakers |-> expectedSpeakers,
                                                  id |-> d.id]]
               IN IF h2.currentSegment = NoSameSegment \/ h2.currentSegment.speakerId # d.id
                  THEN [SameEndCurrentSegment(h2, currentTime) EXCEPT
                          !.currentSegment = [speakerId |-> d.id, startMs |-> currentTime,
                                              endMs |-> currentTime + 100],
                          !.activeSpeaker = d.id]
                  ELSE [h2 EXCEPT !.currentSegment.endMs = currentTime]

\* The props of the same-thread hook: active is stream && settings.enabled,
\* startTime is whether startTime is set.
SameProps ==
  { [active |-> TRUE, startTime |-> TRUE, expectedSpeakers |-> 1],
    [active |-> TRUE, startTime |-> TRUE, expectedSpeakers |-> 2],
    [active |-> TRUE, startTime |-> FALSE, expectedSpeakers |-> 2],
    [active |-> FALSE, startTime |-> TRUE, expectedSpeakers |-> 2] }

SameRuns(p) == p.active /\ p.startTime

NoDetect == [window |-> << >>, models |-> << >>, expectedSpeakers |-> 0, id |-> 0]

\* The same-thread hook before it is mounted.  now is Date.now() - startTime;
\* last and changes follow the kinds of frame of the stream;
\* acquires and releases count the calls of AudioContextManager; ended and
\* detected record the calls of endCurrentSegment and the last detectSpeaker.
SameInitWith(budget) ==
  [budget |-> budget, mounted |-> FALSE, unmounted |-> FALSE,
   props |-> [active |-> FALSE, startTime |-> FALSE, expectedSpeakers |-> 2],
   effects |-> 0, frames |-> 0, last |-> Hush, changes |-> 0, waits |-> 0, now |-> 0,
   pendingInit |-> {}, nextInit |-> 1, handlers |-> {}, workletNodeRef |-> 0,
   models |-> << >>, featureBuffer |-> << >>, silenceCount |-> 0,
   currentSegment |-> NoSameSegment, segments |-> << >>, activeSpeaker |-> 0,
   error |-> FALSE, acquires |-> 0, releases |-> 0,
   ended |-> {}, detected |-> NoDetect]

SameEffects == 2       \* effect runs of the same-thread hook
SameFrames == 7        \* frames its worklet node delivers
SameWaits == 1         \* times the clock moves between two frames
SameChanges == 1       \* times the stream changes the kind of frame
SameBudget == [effects |-> SameEffects, frames |-> SameFrames, waits |-> SameWaits,
               changes |-> SameChanges]

\* A single mount of the hook, for the segments it closes.
SegEffects == 1
SegFrames == 6
SegWaits == 1
SegChanges == 1
SegBudget == [effects |-> SegEffects, frames |-> SegFrames, waits |-> SegWaits,
              changes |-> SegChanges]

SameInit == SameInitWith(SameBudget)

-----------------------------------------------------------------------------
(* The useSpeechRecognition hook (unnamed/part_005) and the recognition     *)
(* object of the browser it drives.                                          *)

\* Errors the recognition object reports; the first two are the ones onerror
\* passes over.
RecErrorKinds == { "no-speech", "audio-capture", "network" }

NoEnd == [halted |-> FALSE, resumed |-> FALSE, intent |-> FALSE, restarted |-> FALSE]

\* The hook before it is mounted.  state is the state of the recognition
\* object: idle, active, or ending (stopped or failed, its end event still to
\* come).  halted is whether stopListening() or a reported error has cleared
\* the intent since the recognition last started; resumed is whether
\* startListening() was called since then.  lastEnd records the last onend.
RecInit ==
  [mounted |-> FALSE, unmounted |-> FALSE, state |-> "idle",
   listeningIntentRef |-> FALSE, isListening |-> FALSE, error |-> "",
   halted |-> FALSE, resumed |-> FALSE,
   calls |-> 0, errors |-> 0, ends |-> 0, attempts |-> 0, lastEnd |-> NoEnd]

RestartsOnEndAlways(listeningIntent) == TRUE

\* The test of onend on the listening intent.
RestartsOnEnd(listeningIntent) == listeningIntent

\* What recognition.start() does in the state s when the browser would answer
\* a start from idle with outcome o: it throws InvalidStateError unless idle.
StartOutcome(s, o) == IF s # "idle" THEN "InvalidStateError" ELSE o

\* startListening() on the hook state r with a recognition object.
startListening(r, o) ==
  LET outcome == StartOutcome(r.state, o)
  IN IF outcome = "started"
     THEN [r EXCEPT !.error = "", !.listeningIntentRef = TRUE, !.state = "active",
                    !.isListening = TRUE]
     ELSE IF outcome = "InvalidStateError"
     THEN [r EXCEPT !.error = "", !.listeningIntentRef = TRUE]
     ELSE [r EXCEPT !.error = "", !.listeningIntentRef = FALSE, !.isListening = FALSE]

-----------------------------------------------------------------------------

NoProps == [active |-> FALSE, expectedSpeakers |-> DefaultExpectedSpeakers, startTime |-> 0]

InitBoth(budget, sameBudget) ==
  /\ eng = EngineInit
  /\ toWorker = << >>
  /\ toMain = << >>
  /\ wLive = {}
  /\ attached = {}
  /\ timers = << >>
  /\ pending = {}
  /\ nextId = 0
  /\ workerRef = 0
  /\ workletNodeRef = 0
  /\ heartbeatIntervalRef = 0
  /\ segmentsRef = << >>
  /\ totalSamplesRef = 0
  /\ restartAttemptsRef = 0
  /\ activeSpeaker = 0
  /\ props = NoProps
  /\ gen = 0
  /\ callerSegments = << >>
  /\ callerEvents = {}
  /\ gaveUp = FALSE
  /\ hist = HistInit
  /\ env = [frames |-> 0, last |-> Silent, changes |-> 0, budget |-> budget]
  /\ same = SameInitWith(sameBudget)
  /\ rec = RecInit

InitWith(budget) == InitBoth(budget, SameBudget)

Init == InitWith(Budget)
InitEngine == InitWith(EngBudget)
InitSup == InitWith(SupBudget)
InitConfig == InitWith(CfgBudget)
InitQuiet == InitWith(QuietBudget)
InitFrames == InitWith(AnyBudget)
InitBacklog == InitWith(BacklogBudget)
InitTwice == InitWith(TwiceBudget)
InitTurns == InitWith(TurnBudget)
InitVad == InitWith(VadBudget)
InitCluster == InitWith(ClusterBudget)
InitPair == InitWith(PairBudget)
InitSegments == InitBoth(Budget, SegBudget)

\* The history h once a new worker replaces the current one.
ShiftRuns(h) ==
  IF env.budget.log THEN [h EXCEPT !.prevRun = hist.curRun, !.curRun = << >>] ELSE h

\* The function f without the key k.
Without(f, k) == [x \in DOMAIN f \ {k} |-> f[x]]

KeptWorkerScope == eng

WarmWorkerScope == [EngineInit EXCEPT !.featureBuffer = eng.featureBuffer]

\* The global scope of a worker that `new Worker(url)` has just created.
NewWorkerScope == EngineInit

\* segmentsRef.current = []; onNewSegments([])
ClearedSegments == << >>

\* totalSamplesRef.current = 0
ClearedSamples == 0

TerminatedNone(live, w) == live

\* workerRef.current.terminate(): the workers live afterwards
Terminated(live, w) == live \ {w}

\* stopDiarization(): everything it assigns.  terminate() discards the worker
\* together with the messages queued in either direction.  (The worklet node
\* stands for the whole audio graph: node, source and context go together.)
StopDiarization ==
  /\ timers' = Without(timers, heartbeatIntervalRef)
  /\ heartbeatIntervalRef' = 0
  /\ wLive' = Terminated(wLive, workerRef)
  /\ attached' = attached \ {workerRef}
  /\ toWorker' = IF workerRef # 0 THEN << >> ELSE toWorker
  /\ toMain' = IF workerRef # 0 THEN << >> ELSE toMain
  /\ workerRef' = 0
  /\ workletNodeRef' = 0
  /\ activeSpeaker' = 0
  /\ segmentsRef' = ClearedSegments
  /\ totalSamplesRef' = ClearedSamples
  /\ callerSegments' = ClearedSegments
  /\ callerEvents' = callerEvents \cup {"segments", "activeSpeaker"}

\* start() up to where it suspends, for an invocation that is not cancelled:
\* stopDiarization(), then a new worker and a new audio context.  Nothing of the
\* hook's state is assigned between `await context.resume()` and
\* `await addModule`, so the two are one suspension.
StartSync(g) ==
  /\ timers' = Without(timers, heartbeatIntervalRef)
  /\ heartbeatIntervalRef' = 0
  /\ wLive' = Terminated(wLive, workerRef) \cup {nextId + 1}
  /\ attached' = attached \ {workerRef}
  /\ toWorker' = << >>
  /\ toMain' = << >>
  /\ workerRef' = nextId + 1
  /\ workletNodeRef' = 0
  /\ activeSpeaker' = 0
  /\ segmentsRef' = ClearedSegments
  /\ totalSamplesRef' = ClearedSamples
  /\ callerSegments' = ClearedSegments
  /\ callerEvents' = callerEvents \cup {"segments", "activeSpeaker"}
  /\ eng' = NewWorkerScope
  /\ nextId' = nextId + 1
  /\ pending' = pending \cup {[id |-> nextId + 1, gen |-> g]}

\* The effect, on mount and whenever stream, settings.enabled,
\* settings.expectedSpeakers or startTime changes: the cleanup of the previous run
\* (isCancelled = true; stopDiarization()), then the body under the new props.
PropsChange(p) ==
  /\ gen < env.budget.effects
  /\ gen = 0 \/ p # props
  /\ p.active => p.expectedSpeakers \in env.budget.expected
  /\ gen' = gen + 1
  /\ props' = p
  /\ IF p.active
     THEN /\ nextId < env.budget.starts
          /\ restartAttemptsRef' = 0
          /\ StartSync(gen + 1)
          /\ hist' = ShiftRuns(HistInit)
     ELSE /\ StopDiarization
          /\ UNCHANGED << restartAttemptsRef, eng, nextId, pending, hist >>
  /\ UNCHANGED << gaveUp, env >>
  /\ UNCHANGED otherHooks

\* start() resumes after `await context.audioWorklet.addModule(...)` resolved.
StartFinish(s) ==
  /\ s \in pending
  /\ pending' = pending \ {s}
  /\ IF s.gen # gen
     THEN UNCHANGED << toWorker, attached, timers, heartbeatIntervalRef, workletNodeRef >>
     ELSE /\ workletNodeRef' = s.id
          /\ toWorker' = IF s.id \in wLive
                         THEN Append(toWorker,
                                [type |-> "config",
                                 payload |-> [sampleRate |-> ContextSampleRate,
                                              expectedSpeakers |-> props.expectedSpeakers]])
                         ELSE toWorker
          /\ attached' = attached \cup {s.id}
          /\ timers' = (s.id :> [gotPong |-> TRUE, gen |-> s.gen]) @@ timers
          /\ heartbeatIntervalRef' = s.id
  /\ UNCHANGED << eng, toMain, wLive, nextId, workerRef, segmentsRef, totalSamplesRef,
                  restartAttemptsRef, activeSpeaker, props, gen, callerSegments,
                  callerEvents, gaveUp, hist, env >>
  /\ UNCHANGED otherHooks

\* addModule rejected: console.error, stopDiarization(), return.
StartFail(s) ==
  /\ s \in pending
  /\ pending' = pending \ {s}
  /\ StopDiarization
  /\ UNCHANGED << eng, nextId, restartAttemptsRef, props, gen, gaveUp, hist, env >>
  /\ UNCHANGED otherHooks

\* t0ms = startTime + (totalSamplesRef.current / context.sampleRate) * 1000
FrameStartMs(startTime, totalSamples) == startTime + (totalSamples * 1000) \div ContextSampleRate

AudioQueued == Len(SelectSeq(toWorker, LAMBDA m : m.type = "audio"))

\* workletNode.port.onmessage for a frame k.
WorkletFrame(k) ==
  /\ workletNodeRef # 0
  /\ env.frames < env.budget.frames
  /\ k \in env.budget.kinds
  /\ (env.frames > 0 /\ k # env.last) => env.changes < env.budget.changes
  /\ AudioQueued < env.budget.inbox
  /\ env' = [env EXCEPT !.frames = @ + 1, !.last = k,
                        !.changes = IF env.frames > 0 /\ k # env.last THEN @ + 1 ELSE @]
  /\ totalSamplesRef' = totalSamplesRef + k.len
  /\ toWorker' = IF workerRef # 0
                 THEN Append(toWorker,
                        [type |-> "audio",
                         payload |-> [frame |-> k,
                                      t0ms |-> FrameStartMs(props.startTime, totalSamplesRef)]])
                 ELSE toWorker
  /\ hist' = IF workerRef # 0
              THEN [hist EXCEPT !.lastT0ms = FrameStartMs(props.startTime, totalSamplesRef)]
              ELSE hist
  /\ UNCHANGED << eng, toMain, wLive, attached, timers, pending, nextId, workerRef,
                  workletNodeRef, heartbeatIntervalRef, segmentsRef, restartAttemptsRef,
                  activeSpeaker, props, gen, callerSegments, callerEvents, gaveUp >>
  /\ UNCHANGED otherHooks

\* The speaker ids a message of the worker carries.
RECURSIVE IdsOf(_)
IdsOf(out) ==
  IF out = << >> THEN {}
  ELSE LET m == Head(out)
       IN (IF m.type = "activeSpeaker" THEN {m.payload.speakerId}
           ELSE IF m.type = "segments"
           THEN {m.payload[i].speakerId : i \in 1..Len(m.payload)}
           ELSE {}) \cup IdsOf(Tail(out))

\* The number of messages of the given type among out.
CountOf(out, type) == Len(SelectSeq(out, LAMBDA m : m.type = type))

\* A frame Meyda measures below any VAD threshold (all-zero frames included).
QuietFrame(frame) ==
  frame.len # 0 /\ ~frame.throws /\ frame.rms # NaN /\ frame.rms < ABS_MIN

\* An empty frame or one that holds a NaN sample.
MalformedFrame(frame) == frame.len = 0 \/ frame.rms = NaN

\* An open segment that closing would queue.
Closable(e) ==
  /\ e.currentSpeakerId # 0
  /\ e.lastSpeechTimestamp = 0 \/ e.lastSpeechTimestamp > e.currentSegmentStartMs

\* The run of quiet frames after the worker, in state e, handled msg and posted out.
RunAfter(run, e, msg, out) ==
  IF msg.type # "audio" THEN run
  ELSE IF QuietFrame(msg.payload.frame)
  THEN [len |-> IF run.len > SILENCE_THRESHOLD_FRAMES THEN run.len ELSE run.len + 1,
        open |-> IF run.len = 0 THEN Closable(e) ELSE run.open,
        segs |-> run.segs + CountOf(out, "segments"),
        actives |-> run.actives + CountOf(out, "activeSpeaker")]
  ELSE NoRun

\* The history after the worker, in state e, handled msg and posted out.
HistAfter(h, e, msg, out) ==
  [h EXCEPT !.emittedIds = @ \cup IdsOf(out),
            !.handled = TRUE,
            !.run = RunAfter(@, e, msg, out),
            !.malformed = @ \/ (msg.type = "audio" /\ e.meyda /\ Closable(e)
                                  /\ MalformedFrame(msg.payload.frame)),
            !.errors = @ + CountOf(out, "error"),
            !.afterError = IF h.errors > 0 THEN @ \cup {msg.type} ELSE @,
            !.curRun = IF env.budget.log THEN Append(@, [in |-> msg, out |-> out]) ELSE @]

\* The live worker takes the next message off its queue and handles it.
WorkerStep ==
  /\ nextId \in wLive
  /\ toWorker # << >>
  /\ Len(toMain) < env.budget.outbox
  /\ \E r \in {WorkerOnMessage(eng, Head(toWorker))} :
        /\ eng' = r.eng
        /\ toMain' = toMain \o r.out
        /\ hist' = HistAfter(hist, eng, Head(toWorker), r.out)
  /\ toWorker' = Tail(toWorker)
  /\ UNCHANGED << wLive, attached, timers, pending, nextId, workerRef, workletNodeRef,
                  heartbeatIntervalRef, segmentsRef, totalSamplesRef, restartAttemptsRef,
                  activeSpeaker, props, gen, callerSegments, callerEvents, gaveUp, env >>
  /\ UNCHANGED otherHooks

PrependSegments(segments, payload) == payload \o segments

\* segmentsRef.current = [...segmentsRef.current, ...payload]
AppendSegments(segments, payload) == segments \o payload

AttemptsKeptAfterPong(attempts) == attempts

\* on 'pong': restartAttemptsRef.current = 0
AttemptsAfterPong(attempts) == 0

\* worker.onmessage on the main thread, for the next message of the live worker.
MainOnMessage ==
  /\ toMain # << >>
  /\ nextId \in wLive
  /\ toMain' = Tail(toMain)
  /\ LET m == Head(toMain)
     IN IF nextId \notin attached
        THEN UNCHANGED << timers, restartAttemptsRef, hist, segmentsRef, callerSegments,
                          callerEvents, activeSpeaker >>
        ELSE IF m.type = "pong"
        THEN /\ timers' = IF nextId \in DOMAIN timers
                          THEN [timers EXCEPT ![nextId].gotPong = TRUE] ELSE timers
             /\ restartAttemptsRef' = AttemptsAfterPong(restartAttemptsRef)
             /\ hist' = [hist EXCEPT !.restartsSincePong = 0, !.missedSincePong = 0,
                                     !.answered = TRUE]
             /\ UNCHANGED << segmentsRef, callerSegments, callerEvents, activeSpeaker >>
        ELSE IF m.type = "segments"
        THEN /\ segmentsRef' = AppendSegments(segmentsRef, m.payload)
             /\ callerSegments' = segmentsRef'
             /\ callerEvents' = callerEvents \cup {"segments"}
             /\ UNCHANGED << timers, restartAttemptsRef, hist, activeSpeaker >>
        ELSE IF m.type = "activeSpeaker"
        THEN /\ activeSpeaker' = m.payload.speakerId
             /\ callerEvents' = callerEvents \cup {"activeSpeaker"}
             /\ UNCHANGED << timers, restartAttemptsRef, hist, segmentsRef, callerSegments >>
        ELSE UNCHANGED << timers, restartAttemptsRef, hist, segmentsRef, callerSegments,
                          callerEvents, activeSpeaker >>
  /\ UNCHANGED << eng, toWorker, wLive, attached, pending, nextId, workerRef,
                  workletNodeRef, heartbeatIntervalRef, totalSamplesRef, props, gen,
                  gaveUp, env >>
  /\ UNCHANGED otherHooks

PingDropped(queue) == queue

\* worker.postMessage({ type: 'ping' })
PingPosted(queue) == Append(queue, [type |-> "ping"])

\* The heartbeat callback when the last ping was answered (or none was sent yet):
\* gotPong = false; worker.postMessage({ type: 'ping' }).
TickPing(t) ==
  /\ t \in DOMAIN timers
  /\ timers[t].gotPong
  /\ timers' = [timers EXCEPT ![t].gotPong = FALSE]
  /\ toWorker' = IF t \in wLive THEN PingPosted(toWorker) ELSE toWorker
  /\ UNCHANGED << eng, toMain, wLive, attached, pending, nextId, workerRef, workletNodeRef,
                  heartbeatIntervalRef, segmentsRef, totalSamplesRef, restartAttemptsRef,
                  activeSpeaker, props, gen, callerSegments, callerEvents, gaveUp, hist, env >>
  /\ UNCHANGED otherHooks

MayRestartOneShort(attempts) == attempts < MAX_RESTARTS - 1

MayRestartUncapped(attempts) == TRUE

\* restartAttemptsRef.current < MAX_RESTARTS
MayRestart(attempts) == attempts < MAX_RESTARTS

\* restartAttemptsRef.current++
NextAttempt(attempts) == attempts + 1

\* The heartbeat callback when the last ping went unanswered and a restart is left:
\* clearInterval, restartAttemptsRef.current++, start().
TickRestart(t) ==
  /\ t \in DOMAIN timers
  /\ ~timers[t].gotPong
  /\ MayRestart(restartAttemptsRef)
  /\ restartAttemptsRef' = NextAttempt(restartAttemptsRef)
  /\ IF timers[t].gen = gen
     THEN /\ nextId < env.budget.starts
          /\ StartSync(gen)
          /\ hist' = ShiftRuns([hist EXCEPT !.totalRestarts = @ + 1,
                                             !.restartsSincePong = @ + 1,
                                             !.missedSincePong = @ + 1, !.handled = FALSE,
                                             !.restartedDirty = (eng.centroids # << >>),
                                             !.run = NoRun])
     ELSE /\ timers' = Without(timers, heartbeatIntervalRef)
          /\ hist' = [hist EXCEPT !.missedSincePong = @ + 1]
          /\ UNCHANGED << eng, toWorker, toMain, wLive, attached, pending, nextId, workerRef,
                          workletNodeRef, heartbeatIntervalRef, segmentsRef, totalSamplesRef,
                          activeSpeaker, callerSegments, callerEvents >>
  /\ UNCHANGED << props, gen, gaveUp, env >>
  /\ UNCHANGED otherHooks

\* The heartbeat callback when the last ping went unanswered and no restart is left:
\* clearInterval, console.error.
TickGiveUp(t) ==
  /\ t \in DOMAIN timers
  /\ ~timers[t].gotPong
  /\ ~MayRestart(restartAttemptsRef)
  /\ timers' = Without(timers, heartbeatIntervalRef)
  /\ gaveUp' = TRUE
  /\ hist' = [hist EXCEPT !.missedSincePong = @ + 1]
  /\ UNCHANGED << eng, toWorker, toMain, wLive, attached, pending, nextId, workerRef,
                  workletNodeRef, heartbeatIntervalRef, segmentsRef, totalSamplesRef,
                  restartAttemptsRef, activeSpeaker, props, gen, callerSegments,
                  callerEvents, env >>
  /\ UNCHANGED otherHooks

PropsInputs ==
  {NoProps} \cup [active : {TRUE}, expectedSpeakers : ExpectedSpeakersInputs,
                  startTime : StartTimes]

Next ==
  \/ \E p \in PropsInputs : PropsChange(p)
  \/ \E s \in pending : StartFinish(s)
  \/ \E s \in pending : StartFail(s)
  \/ \E k \in FrameKinds : WorkletFrame(k)
  \/ WorkerStep
  \/ MainOnMessage
  \/ \E t \in DOMAIN timers : TickPing(t)
  \/ \E t \in DOMAIN timers : TickRestart(t)
  \/ \E t \in DOMAIN timers : TickGiveUp(t)

Spec == Init /\ [][Next]_vars

\* One session from its start on, the heartbeat left out.
NextEngine ==
  \/ \E p \in PropsInputs : PropsChange(p)
  \/ \E s \in pending : StartFinish(s)
  \/ \E k \in FrameKinds : WorkletFrame(k)
  \/ WorkerStep
  \/ MainOnMessage

SpecEngine == InitEngine /\ [][NextEngine]_vars

\* One session and its heartbeat.
NextSup ==
  \/ \E p \in PropsInputs : PropsChange(p)
  \/ \E s \in pending : StartFinish(s)
  \/ \E k \in FrameKinds : WorkletFrame(k)
  \/ WorkerStep
  \/ MainOnMessage
  \/ \E t \in DOMAIN timers : TickPing(t)
  \/ \E t \in DOMAIN timers : TickRestart(t)
  \/ \E t \in DOMAIN timers : TickGiveUp(t)

SpecSup == InitSup /\ [][NextSup]_vars

SpecConfig == InitConfig /\ [][NextEngine]_vars

SpecQuiet == InitQuiet /\ [][NextEngine]_vars

SpecFrames == InitFrames /\ [][NextEngine]_vars

SpecBacklog == InitBacklog /\ [][NextEngine]_vars

SpecTwice == InitTwice /\ [][NextEngine]_vars

SpecTurns == InitTurns /\ [][NextEngine]_vars

SpecVad == InitVad /\ [][NextEngine]_vars

SpecCluster == InitCluster /\ [][NextEngine]_vars

SpecPair == InitPair /\ [][NextEngine]_vars

-----------------------------------------------------------------------------
(* The same-thread hook: effect, audio initialisation, frames, clean-up *)

SameWaitSteps == { SameFrameMs - 1 }

\* cleanup() of the render whose startTime was set or not.
SameCleanup(h, startTimeSet) ==
  LET h1 == IF h.currentSegment # NoSameSegment /\ startTimeSet
            THEN SameEndCurrentSegment(h, h.now) ELSE h
  IN [h1 EXCEPT !.handlers = { n \in @ : n.id # h1.workletNodeRef },
                !.workletNodeRef = 0,
                !.releases = @ + 1]

resetDiarization(h) ==
  [h EXCEPT !.segments = << >>, !.models = << >>, !.featureBuffer = << >>,
            !.silenceCount = 0, !.currentSegment = NoSameSegment, !.activeSpeaker = 0]

\* initializeAudioProcessing() up to its first await: the context is acquired.
initializeAudioProcessing(h, p) ==
  IF ~SameRuns(p) THEN h
  ELSE [h EXCEPT !.error = FALSE,
                 !.acquires = @ + 1,
                 !.pendingInit = @ \cup {[id |-> h.nextInit,
                                          expectedSpeakers |-> p.expectedSpeakers]},
                 !.nextInit = @ + 1]

\* The effect runs for the props p: the clean-up of the previous run, then
\* the body.
SameEffect(p) ==
  /\ ~same.unmounted
  /\ same.effects < same.budget.effects
  /\ same.mounted => p # same.props
  /\ LET h0 == IF same.mounted THEN SameCleanup(same, same.props.startTime) ELSE same
         h1 == IF SameRuns(p)
               THEN initializeAudioProcessing(resetDiarization(h0), p)
               ELSE SameCleanup(h0, p.startTime)
     IN same' = [h1 EXCEPT !.mounted = TRUE, !.props = p, !.effects = @ + 1]
  /\ UNCHANGED << workerVars, rec >>

\* The worklet module has loaded: the node is created and its handler set.
SameInitFinish(i) ==
  /\ i \in same.pendingInit
  /\ same' = [same EXCEPT !.pendingInit = @ \ {i},
                          !.handlers = @ \cup {i},
                          !.workletNodeRef = i.id]
  /\ UNCHANGED << workerVars, rec >>

\* resume() or addModule() rejects: the catch records the error.
SameInitFail(i) ==
  /\ i \in same.pendingInit
  /\ same' = [same EXCEPT !.pendingInit = @ \ {i}, !.error = TRUE]
  /\ UNCHANGED << workerVars, rec >>

\* processAudioData in every live handler, oldest node first.
RECURSIVE SameDeliver(_, _, _)
SameDeliver(h, ns, features) ==
  IF ns = {} THEN h
  ELSE LET n == CHOOSE m \in ns : \A o \in ns : m.id <= o.id
       IN SameDeliver(processAudioData(h, features, n.expectedSpeakers, h.now),
                      ns \ {n}, features)

\* The next frame of the stream reaches the worklet nodes.
SameFrame(k) ==
  /\ same.handlers # {}
  /\ same.frames < same.budget.frames
  /\ (same.frames > 0 /\ k # same.last) => same.changes < same.budget.changes
  /\ same' = SameDeliver([same EXCEPT !.frames = @ + 1, !.now = @ + SameFrameMs,
                                      !.last = k,
                                      !.changes = IF same.frames > 0 /\ k # same.last
                                                  THEN @ + 1 ELSE @],
                         same.handlers, k)
  /\ UNCHANGED << workerVars, rec >>

\* Time passes without a frame while a segment is open (with none open it
\* only shifts the times of the segments to come).
SameWait(dt) ==
  /\ same.mounted
  /\ same.currentSegment # NoSameSegment
  /\ same.waits < same.budget.waits
  /\ same' = [same EXCEPT !.waits = @ + 1, !.now = @ + dt]
  /\ UNCHANGED << workerVars, rec >>

\* The component unmounts: the clean-up of the last run.
SameUnmount ==
  /\ same.mounted
  /\ same' = [SameCleanup(same, same.props.startTime) EXCEPT
                !.mounted = FALSE, !.unmounted = TRUE]
  /\ UNCHANGED << workerVars, rec >>

NextSame ==
  \/ \E p \in SameProps : SameEffect(p)
  \/ \E i \in same.pendingInit : SameInitFinish(i)
  \/ \E i \in same.pendingInit : SameInitFail(i)
  \/ \E k \in SameKinds : SameFrame(k)
  \/ \E dt \in SameWaitSteps : SameWait(dt)
  \/ SameUnmount

SpecSame == Init /\ [][NextSame]_vars

SpecSegments == InitSegments /\ [][NextSame]_vars

-----------------------------------------------------------------------------
(* The useSpeechRecognition hook: calls, recognition events, unmount *)

RecCalls == 3          \* calls of startListening() and stopListening()
RecErrors == 2         \* errors the recognition object reports
RecEnds == 3           \* end events of the recognition object

\* The effect creates the recognition object and sets its handlers.
RecMount ==
  /\ ~rec.mounted /\ ~rec.unmounted
  /\ rec' = [rec EXCEPT !.mounted = TRUE]
  /\ UNCHANGED << workerVars, same >>

\* The caller calls startListening().
RecStartListening(o) ==
  /\ rec.mounted
  /\ rec.calls < RecCalls
  /\ rec' = [startListening(rec, o) EXCEPT !.calls = @ + 1,
                                            !.resumed = rec.halted]
  /\ UNCHANGED << workerVars, same >>

\* The caller calls stopListening().
RecStopListening ==
  /\ rec.mounted
  /\ rec.calls < RecCalls
  /\ rec' = IF ~rec.listeningIntentRef
            THEN [rec EXCEPT !.calls = @ + 1]
            ELSE [rec EXCEPT !.calls = @ + 1,
                             !.listeningIntentRef = FALSE,
                             !.state = IF @ = "active" THEN "ending" ELSE @,
                             !.halted = TRUE, !.resumed = FALSE]
  /\ UNCHANGED << workerVars, same >>

\* The recognition object reports the error e; its end event follows.
RecOnError(e) ==
  /\ rec.mounted
  /\ rec.state \in { "active", "ending" }
  /\ rec.errors < RecErrors
  /\ rec' = IF e \in { "no-speech", "audio-capture" }
            THEN [rec EXCEPT !.errors = @ + 1, !.state = "ending"]
            ELSE [rec EXCEPT !.errors = @ + 1, !.state = "ending",
                             !.error = e, !.listeningIntentRef = FALSE,
                             !.isListening = FALSE,
                             !.halted = TRUE, !.resumed = FALSE]
  /\ UNCHANGED << workerVars, same >>

\* The recognition object ends, on its own or after a stop or an error; a
\* start from onend gets the outcome o.
RecOnEnd(o) ==
  /\ rec.mounted
  /\ rec.state \in { "active", "ending" }
  /\ rec.ends < RecEnds
  /\ LET r0 == [rec EXCEPT !.state = "idle", !.isListening = FALSE]
         restarts == RestartsOnEnd(rec.listeningIntentRef)
         r1 == IF restarts THEN [startListening(r0, o) EXCEPT !.attempts = @ + 1] ELSE r0
     IN rec' = [r1 EXCEPT !.ends = @ + 1, !.halted = FALSE, !.resumed = FALSE,
                          !.lastEnd = [halted |-> rec.halted, resumed |-> rec.resumed,
                                       intent |-> rec.listeningIntentRef,
                                       restarted |-> restarts]]
  /\ UNCHANGED << workerVars, same >>

\* The component unmounts: the handlers are removed and the recognition aborted.
RecUnmount ==
  /\ rec.mounted
  /\ rec' = [rec EXCEPT !.mounted = FALSE, !.unmounted = TRUE,
                        !.listeningIntentRef = FALSE, !.state = "idle"]
  /\ UNCHANGED << workerVars, same >>

NextRec ==
  \/ RecMount
  \/ \E o \in { "started", "failed" } : RecStartListening(o)
  \/ RecStopListening
  \/ \E e \in RecErrorKinds : RecOnError(e)
  \/ \E o \in { "started", "failed" } : RecOnEnd(o)
  \/ RecUnmount

SpecRec == Init /\ [][NextRec]_vars

-----------------------------------------------------------------------------
(* Properties *)

\* The newest worker is alive.
WorkerAlive == nextId \in wLive

\* The worker holds an open segment that its own flush would queue.
OpenSegment ==
  /\ WorkerAlive
  /\ eng.currentSpeakerId # 0
  /\ eng.lastSpeechTimestamp > eng.currentSegmentStartMs

Ordered(segments) ==
  \A i \in 1..(Len(segments) - 1) :
     /\ segments[i].startMs <= segments[i + 1].startMs
     /\ segments[i].endMs <= segments[i + 1].startMs

\* C1: the list of finalized segments handed to onNewSegments is at every moment
\* ordered by non-decreasing startMs and free of overlap: each segment ends no
\* later than the next one starts.
C1_SegmentsOrdered == Ordered(callerSegments)

C1_Witness == Len(callerSegments) >= 2

\* C2: when the session is stopped while a segment is open, that segment, closed
\* at the last speech timestamp, is in the list the caller holds once the stop
\* has released the worker.
C2_StopFlushesOpenSegment ==
  [][ (props.active /\ ~props'.active /\ OpenSegment)
      => \E i \in 1..Len(callerSegments') :
            callerSegments'[i] = [speakerId |-> eng.currentSpeakerId,
                                  startMs |-> eng.currentSegmentStartMs,
                                  endMs |-> eng.lastSpeechTimestamp] ]_vars

\* C3 as claimed: a restart has been made only once 3 consecutive heartbeat cycles
\* were missed, and at that point one restart has been made and the counter is 1.
C3_RestartAfterThreeMisses ==
  /\ hist.restartsSincePong >= 1 => hist.missedSincePong >= 3
  /\ hist.missedSincePong = 3 => (hist.restartsSincePong = 1 /\ restartAttemptsRef = 1)

\* C3 as amended: every heartbeat cycle that finds the last ping unanswered makes
\* a restart at once, up to MAX_RESTARTS: after k <= MAX_RESTARTS consecutive
\* missed cycles k restarts have been made and the counter is k, and until the
\* new worker handles its first message the engine is in its initial state.
C3_RestartPerMiss ==
  /\ hist.missedSincePong <= MAX_RESTARTS
       => (hist.restartsSincePong = hist.missedSincePong
           /\ restartAttemptsRef = hist.missedSincePong)
  /\ (hist.missedSincePong \in 1..MAX_RESTARTS /\ ~hist.handled) => eng = EngineInit

C3_Witness ==
  /\ hist.missedSincePong = 1
  /\ hist.restartsSincePong = 1
  /\ restartAttemptsRef = 1
  /\ WorkerAlive
  /\ ~hist.handled

\* C4: once the supervisor has given up (a heartbeat was missed with MAX_RESTARTS
\* restarts already made), the caller has received a fatal error.
C4_FatalErrorSurfaced == gaveUp => "error" \in callerEvents

\* C5 as claimed: the restarts made in one session never exceed MAX_RESTARTS.
C5_TotalRestartsCapped == hist.totalRestarts <= MAX_RESTARTS

\* C5 as amended: the restarts made since the latest pong (or the session's
\* start) never exceed MAX_RESTARTS.
C5_ConsecutiveRestartsCapped == hist.restartsSincePong <= MAX_RESTARTS

C5_Witness == gaveUp /\ hist.restartsSincePong = MAX_RESTARTS

\* C6: the restart counter equals the number of restarts made since the latest
\* pong or session start.
C6_CounterCountsRestarts == restartAttemptsRef = hist.restartsSincePong

C6_Witness == hist.totalRestarts >= 2 /\ restartAttemptsRef = 0 /\ props.active

\* C7: after a restart, until the new worker handles its first message, the
\* engine is in its initial state (no centroids, empty window, no open segment,
\* silence counter 0, initial noise floor), nothing is queued from it, and the
\* hook's segment list, the caller's list, the sample count and the active
\* speaker are cleared.
C7_CleanAfterRestart ==
  (hist.totalRestarts >= 1 /\ WorkerAlive /\ ~hist.handled)
    => /\ eng = EngineInit
       /\ toMain = << >>
       /\ segmentsRef = << >>
       /\ callerSegments = << >>
       /\ activeSpeaker = 0
       /\ (workletNodeRef = 0 => totalSamplesRef = 0)

C7_Witness ==
  /\ hist.totalRestarts >= 1
  /\ WorkerAlive
  /\ ~hist.handled
  /\ hist.restartedDirty

\* C8: under a configuration with expectedSpeakers <= 0 the worker processes no
\* frame (its silence counter and smoothing window stay untouched) and the
\* caller has received a configuration error.
C8_InvalidConfigRejected ==
  (props.active /\ props.expectedSpeakers <= 0)
    => /\ eng.silenceFrames = 0
       /\ eng.featureBuffer = << >>
       /\ (eng.meyda => "error" \in callerEvents)

\* C9: in a session started with expectedSpeakers >= 1, the distinct speaker ids
\* in the activeSpeaker and segments messages posted so far number at most
\* expectedSpeakers.
C9_EmittedIdsWithinExpected ==
  (props.active /\ props.expectedSpeakers >= 1)
    => Cardinality(hist.emittedIds) <= props.expectedSpeakers

\* One speaker is expected and the window has moved beyond the change threshold
\* from the only centroid.
C9_Witness ==
  /\ props.active
  /\ props.expectedSpeakers = 1
  /\ hist.emittedIds = {1}
  /\ Len(eng.centroids) = 1
  /\ Len(eng.featureBuffer) = MAX_FEATURE_BUFFER_LENGTH
  /\ OverChangeThreshold(Cosine(MeanVec(eng.featureBuffer), eng.centroids[1].vector))

\* C10: the number of centroids is at most the expectedSpeakers the engine runs with.
C10_CentroidsWithinExpected == Len(eng.centroids) <= eng.cfg.expectedSpeakers

\* The ids of the centroids, in the order the centroids were created.
CentroidIds(centroids) == [i \in 1..Len(centroids) |-> centroids[i].id]

\* C11: within one engine lifetime the k-th centroid created has id k (S1 first)
\* after every step (a new worker starts with no centroid), so no id belongs to
\* two centroids, and a step of the same worker neither removes a centroid nor
\* changes the id of one.
C11_IdsInCreationOrder ==
  [][ /\ \A k \in 1..Len(eng'.centroids) : eng'.centroids[k].id = k
      /\ (nextId' = nextId /\ WorkerAlive)
           => /\ Len(eng'.centroids) >= Len(eng.centroids)
              /\ SubSeq(CentroidIds(eng'.centroids), 1, Len(eng.centroids))
                   = CentroidIds(eng.centroids) ]_vars

\* A second centroid was created and the first speaker is active again.
C11_Witness ==
  /\ Len(eng.centroids) = 2
  /\ 2 \in hist.emittedIds
  /\ eng.currentSpeakerId = 1

\* C12: once more than SILENCE_THRESHOLD_FRAMES quiet frames (all-zero frames
\* included) in a row have followed an open segment, the worker has posted
\* exactly one segments message and no activeSpeaker message during them.
C12_SilenceClosesOnce ==
  (hist.run.open /\ hist.run.len > SILENCE_THRESHOLD_FRAMES)
    => (hist.run.segs = 1 /\ hist.run.actives = 0)

\* C13: every segment delivered to the caller lasts at least
\* MIN_SEGMENT_DURATION_MS.
C13_ShortSegmentsDropped ==
  \A i \in 1..Len(callerSegments) :
     callerSegments[i].endMs - callerSegments[i].startMs >= MIN_SEGMENT_DURATION_MS

\* The worker's next message is a frame that the VAD takes for speech.
SpeechFrameNext ==
  /\ WorkerAlive
  /\ toWorker # << >>
  /\ Head(toWorker).type = "audio"
  /\ LET frame == Head(toWorker).payload.frame
     IN /\ eng.meyda /\ frame.len # 0 /\ ~frame.throws /\ ~Falsy(frame.rms)
        /\ ~BelowVad(frame.rms, NoiseFloorUpdate(eng.noiseFloor, frame.rms))

\* With that frame the smoothed vector lies beyond CHANGE_THRESHOLD from the only
\* centroid, S1 has the open segment and at least two speakers are expected.
SecondSpeakerDue ==
  /\ SpeechFrameNext
  /\ eng.cfg.expectedSpeakers >= 2
  /\ Len(eng.centroids) = 1
  /\ eng.currentSpeakerId = 1
  /\ OverChangeThreshold(
       Cosine(MeanVec(PushFeature(eng.featureBuffer, Head(toWorker).payload.frame.mfcc)),
              eng.centroids[1].vector))

\* C14: when the worker handles such a frame it creates centroid S2, opens the
\* segment of S2 and posts activeSpeaker S2 as the last message of that step.
C14_SecondSpeakerCreated ==
  [][ (SecondSpeakerDue /\ toWorker' = Tail(toWorker) /\ nextId' = nextId)
      => /\ Len(eng'.centroids) = 2
         /\ eng'.centroids[2].id = 2
         /\ eng'.currentSpeakerId = 2
         /\ Len(toMain') > Len(toMain)
         /\ toMain'[Len(toMain')] = ActiveSpeakerMsg(2) ]_vars

\* S2 has just been created from a window that still holds frames of S1.
C14_Witness ==
  /\ Len(eng.centroids) = 2
  /\ eng.currentSpeakerId = 2
  /\ eng.currentSegmentStartMs = eng.lastSpeechTimestamp \/ eng.lastSpeechTimestamp = 0
  /\ toMain # << >>
  /\ toMain[Len(toMain)] = ActiveSpeakerMsg(2)
  /\ \E j \in 1..Len(eng.featureBuffer) : eng.featureBuffer[j] # eng.centroids[2].vector

\* The worker's next message is an empty frame or a frame that holds a NaN sample.
MalformedNext ==
  /\ WorkerAlive
  /\ toWorker # << >>
  /\ Head(toWorker).type = "audio"
  /\ MalformedFrame(Head(toWorker).payload.frame)

\* C15: handling an empty or NaN-bearing frame leaves the whole scope of the
\* worker as it was (noise floor, silence counter, smoothing window, centroids,
\* open segment, last speech timestamp) and posts no message, so the frames
\* after it meet the state they would have met without it.
C15_MalformedFrameDropped ==
  [][ (MalformedNext /\ toWorker' = Tail(toWorker) /\ nextId' = nextId)
      => (eng' = eng /\ toMain' = toMain) ]_vars

\* A malformed frame was handled while a segment was open, and the segment is
\* still open with the queue drained.
C15_Witness ==
  /\ hist.malformed
  /\ Closable(eng)
  /\ eng.featureBuffer # << >>
  /\ toWorker = << >>

\* The worker's next message is a frame on which feature extraction throws.
ThrowNext ==
  /\ WorkerAlive
  /\ toWorker # << >>
  /\ Head(toWorker).type = "audio"
  /\ MeydaThrows(eng, Head(toWorker).payload.frame)

\* C16: when handling a frame throws, the worker posts one error message and
\* stays alive with its scope as it was; and after an error the worker still
\* takes the next message off its queue whenever one is there.
C16_ThrowAbsorbed ==
  /\ [][ (ThrowNext /\ toWorker' = Tail(toWorker) /\ nextId' = nextId)
         => /\ toMain' = Append(toMain, ErrorMsg)
            /\ eng' = eng
            /\ wLive' = wLive ]_vars
  /\ []( (hist.errors > 0 /\ WorkerAlive /\ toWorker # << >>
          /\ Len(toMain) < env.budget.outbox) => ENABLED WorkerStep )

\* After its one error the same worker has processed a quiet frame and answered
\* a ping.
C16_Witness ==
  /\ hist.errors = 1
  /\ hist.run.len > 0
  /\ {"audio", "ping"} \subseteq hist.afterError
  /\ WorkerAlive
  /\ hist.restartsSincePong = 0
  /\ \A t \in DOMAIN timers : timers[t].gotPong

\* C17: the audio frames waiting at the worker stay below a capacity: they never
\* number as many as all the frames the source produces in a behaviour, because
\* one was dropped or the source was held back.
C17_BacklogBounded == AudioQueued < env.budget.frames

\* C18: within a session (one run of the effect, restarts included) a frame
\* posted to the worker carries a timestamp no smaller than the frame posted
\* before it.
C18_TimestampsNonDecreasing ==
  [][ gen' = gen => hist'.lastT0ms >= hist.lastT0ms ]_vars

\* C19: a frame posted to the worker carries the offset of its first sample from
\* the session's start: samples posted before it / sampleRate * 1000, 0 for the
\* first frame.
C19_TimestampsFromSessionStart ==
  [][ (Len(toWorker') > Len(toWorker) /\ toWorker'[Len(toWorker')].type = "audio")
      => toWorker'[Len(toWorker')].payload.t0ms
           = (totalSamplesRef * 1000) \div ContextSampleRate ]_vars

\* The messages up to the i-th that the previous and the current worker handled
\* are the same.
SameInputs(i) ==
  /\ i <= Len(hist.prevRun)
  /\ i <= Len(hist.curRun)
  /\ \A j \in 1..i : hist.curRun[j].in = hist.prevRun[j].in

HandlesHead ==
  /\ WorkerAlive
  /\ toWorker # << >>
  /\ toWorker' = Tail(toWorker)
  /\ nextId' = nextId
  /\ gen' = gen

\* The messages the worker posts in this step.
Posted == SubSeq(toMain', Len(toMain) + 1, Len(toMain'))

\* An 'audio' message as the hook posts it.
AudioMsg(k, t0ms) == [type |-> "audio", payload |-> [frame |-> k, t0ms |-> t0ms]]

\* C21: a worker that has not handled a configuration message ignores every
\* frame (its scope stays as it is and it posts nothing), and every frame
\* queued at a worker is behind that worker's configuration message or reaches
\* it configured, on the first start and after every restart.
C21_ConfigBeforeFrames ==
  /\ ~eng.meyda =>
       \A k \in FrameKinds :
          WorkerOnMessage(eng, AudioMsg(k, FrameStartMs(props.startTime, totalSamplesRef)))
             = Result(eng, << >>)
  /\ \A i \in 1..Len(toWorker) :
        toWorker[i].type = "audio" =>
           eng.meyda \/ \E j \in 1..(i - 1) : toWorker[j].type = "config"

\* After a restart the new worker, not yet configured, has a frame queued
\* behind its configuration message.
C21_Witness ==
  /\ hist.totalRestarts > 0
  /\ WorkerAlive
  /\ ~eng.meyda
  /\ Len(toWorker) >= 2
  /\ toWorker[1].type = "config"
  /\ toWorker[2].type = "audio"

\* The worker's next message is a frame that it measures as quiet.
QuietNext ==
  /\ WorkerAlive
  /\ toWorker # << >>
  /\ Head(toWorker).type = "audio"
  /\ eng.meyda
  /\ QuietFrame(Head(toWorker).payload.frame)

\* C22: a segment that is closed on a quiet frame ends before that frame, at
\* the timestamp of a speech frame, also when a speaker change opened it and
\* no speech frame followed.
C22_SilenceEndsAtLastSpeech ==
  [][ (QuietNext /\ HandlesHead /\ CountOf(Posted, "segments") = 1)
      => \A i \in 1..Len(Posted) :
            Posted[i].type = "segments" =>
               Posted[i].payload[1].endMs < Head(toWorker).payload.t0ms ]_vars

\* C23: an open segment is closed on the quiet frame that makes
\* SILENCE_THRESHOLD_FRAMES quiet frames in a row.
C23_ClosedAtThreshold ==
  (hist.run.open /\ hist.run.len = SILENCE_THRESHOLD_FRAMES) => hist.run.segs = 1

\* The worker's next message is an all-zero frame.
ZeroNext ==
  /\ WorkerAlive
  /\ toWorker # << >>
  /\ Head(toWorker).type = "audio"
  /\ eng.meyda
  /\ Head(toWorker).payload.frame = Zero

\* C24: an all-zero frame updates the noise floor with energy 0 and counts as
\* one more silent frame; nothing is raised.
C24_ZeroFrameIsSilent ==
  [][ (ZeroNext /\ HandlesHead)
      => /\ eng'.noiseFloor = NoiseFloorUpdate(eng.noiseFloor, 0)
         /\ eng'.silenceFrames = eng.silenceFrames + 1
         /\ CountOf(Posted, "error") = 0 ]_vars

\* The worker's next message is a frame that reaches the VAD.
VadNext ==
  /\ WorkerAlive
  /\ toWorker # << >>
  /\ Head(toWorker).type = "audio"
  /\ LET frame == Head(toWorker).payload.frame
     IN eng.meyda /\ frame.len # 0 /\ ~frame.throws /\ ~Falsy(frame.rms)

\* C25: a frame that reaches the VAD is taken for speech (the silence counter
\* is zero afterwards) exactly when its energy is at least
\* max(2.5 * noiseFloor, ABS_MIN), with the noise floor as this frame has
\* updated it; so no frame below ABS_MIN is taken for speech.
C25_SpeechIffAtLeastThreshold ==
  [][ (VadNext /\ HandlesHead)
      => LET rms == Head(toWorker).payload.frame.rms
         IN /\ eng'.noiseFloor = NoiseFloorUpdate(eng.noiseFloor, rms)
            /\ (eng'.silenceFrames = 0)
                 <=> (2 * rms * FloorScale
                        >= Max(5 * eng'.noiseFloor, 2 * ABS_MIN * FloorScale))
            /\ (eng'.silenceFrames # 0) <=> (eng'.silenceFrames = eng.silenceFrames + 1)
            /\ (eng'.silenceFrames = 0) => rms >= ABS_MIN ]_vars

\* A frame whose energy is exactly ABS_MIN has been taken for speech, with the
\* noise floor so low that ABS_MIN is the threshold.
C25_Witness ==
  /\ env.last = AtMin
  /\ toWorker = << >>
  /\ eng.silenceFrames = 0
  /\ eng.featureBuffer # << >>
  /\ 5 * eng.noiseFloor <= 2 * ABS_MIN * FloorScale

\* Smoothed vectors to try on the centroids of a reachable state: at, just
\* beyond and just within CHANGE_THRESHOLD of VecA, the two pure vectors, a
\* mixed one and the zero vector.
ProbeVecs ==
  { << 60, 80 >>, << 59, 80 >>, << 61, 80 >>, VecA, VecB, << 50, 50 >>, << 0, 0 >> }

\* cosineDistance(v, c) > 0.4, computed from the dot product and the magnitudes.
FartherThanThreshold(v, c) ==
  LET dot == Dot(v, c)
      m1 == Dot(v, v)
      m2 == Dot(c, c)
  IN m1 = 0 \/ m2 = 0 \/ dot <= 0 \/ FracLess(dot * dot, m1 * m2, 9, 25)

\* C26: with a centroid present, the clustering decision for a vector creates
\* a centroid exactly when the vector is farther than CHANGE_THRESHOLD from
\* every centroid and fewer than expectedSpeakers centroids exist; otherwise
\* (at CHANGE_THRESHOLD exactly, or at capacity) no centroid is created and the
\* vector goes to a centroid at minimal distance.
C26_NewCentroidIffFarAndRoom ==
  \A v \in ProbeVecs :
     Len(eng.centroids) >= 1 =>
        LET n == Len(eng.centroids)
            c == Cluster(eng.centroids, v, eng.cfg.expectedSpeakers)
            far == \A i \in 1..n : FartherThanThreshold(v, eng.centroids[i].vector)
            room == n < eng.cfg.expectedSpeakers
        IN /\ (Len(c.centroids) = n + 1) <=> (far /\ room)
           /\ ~(far /\ room) =>
                /\ Len(c.centroids) = n
                /\ c.detected \in 1..n
                /\ \A j \in 1..n :
                      ~DistLess(Cosine(v, eng.centroids[j].vector),
                                Cosine(v, eng.centroids[c.detected].vector))

\* The only centroid is VecA and a second speaker is expected: the vector at
\* distance 0.4 exactly goes to S1, the one just beyond makes S2.
C26_Witness ==
  /\ Len(eng.centroids) = 1
  /\ eng.centroids[1].vector = VecA
  /\ eng.cfg.expectedSpeakers = 2
  /\ ~FartherThanThreshold(<< 60, 80 >>, VecA)
  /\ Cluster(eng.centroids, << 60, 80 >>, 2).detected = 1
  /\ Cluster(eng.centroids, << 59, 80 >>, 2).detected = 2

\* C27: the centroid a vector is assigned to is at minimal distance, and every
\* centroid created before it is strictly farther.
C27_TieGoesToFirst ==
  \A v \in ProbeVecs :
     Len(eng.centroids) >= 1 =>
        LET D(i) == Cosine(v, eng.centroids[i].vector)
            i == ClosestIdx(eng.centroids, v)
        IN /\ \A j \in 1..Len(eng.centroids) : ~DistLess(D(j), D(i))
           /\ \A j \in 1..(i - 1) : DistLess(D(i), D(j))

\* Two centroids at the same distance from a vector, which goes to the first.
C27_Witness ==
  /\ Len(eng.centroids) = 2
  /\ \E v \in ProbeVecs :
        LET D(i) == Cosine(v, eng.centroids[i].vector)
        IN /\ ~DistLess(D(1), D(2))
           /\ ~DistLess(D(2), D(1))
           /\ ClosestIdx(eng.centroids, v) = 1

\* C28: a frame changes at most the vector of the centroid of the speaker it is
\* assigned to; ids stay, and when a centroid is created the existing ones
\* stay as they are.
C28_OnlyAssignedCentroidMoves ==
  [][ (HandlesHead /\ Head(toWorker).type = "audio")
      => LET old == eng.centroids
             new == eng'.centroids
         IN /\ Len(new) >= Len(old)
            /\ \A i \in 1..Len(old) : new[i].id = old[i].id
            /\ Len(new) > Len(old) => \A i \in 1..Len(old) : new[i] = old[i]
            /\ \A i \in 1..Len(old) :
                  new[i] # old[i] => (Len(new) = Len(old) /\ new[i].id = eng'.currentSpeakerId)
     ]_vars

\* With two centroids present, a further frame has been assigned to S2.
C28_Witness ==
  /\ Len(eng.centroids) = 2
  /\ eng.currentSpeakerId = 2
  /\ eng.lastSpeechTimestamp > eng.currentSegmentStartMs
  /\ eng.centroids[1].vector # eng.centroids[2].vector

\* C29: a speech frame after which the window holds fewer than half its
\* capacity changes no centroid, no speaker assignment and no open segment,
\* and the worker posts nothing.
C29_NoDecisionBelowHalfWindow ==
  [][ (SpeechFrameNext /\ HandlesHead
         /\ Len(eng.featureBuffer) + 1 < MAX_FEATURE_BUFFER_LENGTH \div 2)
      => /\ eng'.centroids = eng.centroids
         /\ eng'.currentSpeakerId = eng.currentSpeakerId
         /\ eng'.currentSegmentStartMs = eng.currentSegmentStartMs
         /\ Posted = << >> ]_vars

\* Five speech frames are in the window and no centroid exists.
C29_Witness ==
  /\ Len(eng.featureBuffer) = MAX_FEATURE_BUFFER_LENGTH \div 2 - 1
  /\ eng.silenceFrames = 0
  /\ eng.lastSpeechTimestamp > 0
  /\ eng.centroids = << >>
  /\ toMain = << >>

\* C30: the worker posts activeSpeaker on a frame exactly when the frame opens
\* a segment (none was open, or the detected speaker is not the one of the
\* open segment); the message is the last of the step and carries the speaker
\* of the new segment, which starts at the frame's timestamp.
C30_ActiveSpeakerIffSegmentOpens ==
  [][ (HandlesHead /\ Head(toWorker).type = "audio")
      => LET opens == eng'.currentSpeakerId # 0
                        /\ eng'.currentSpeakerId # eng.currentSpeakerId
         IN /\ CountOf(Posted, "activeSpeaker") = (IF opens THEN 1 ELSE 0)
            /\ opens => /\ Posted[Len(Posted)] = ActiveSpeakerMsg(eng'.currentSpeakerId)
                        /\ eng'.currentSegmentStartMs = Head(toWorker).payload.t0ms
     ]_vars

\* Silence closed the first segment of S1, the caller has it, and a later
\* frame of S1 has opened a second one.
C30_Witness ==
  /\ callerSegments # << >>
  /\ callerSegments[1].speakerId = 1
  /\ eng.currentSpeakerId = 1
  /\ eng.currentSegmentStartMs > callerSegments[1].endMs
  /\ toMain # << >>
  /\ toMain[Len(toMain)] = ActiveSpeakerMsg(1)

\* C31: when a frame closes one speaker's segment and opens another's, the
\* worker posts the segments message before the activeSpeaker message, and the
\* hook shows a second speaker as active only after the caller has got the
\* segment of the first.
C31_SegmentBeforeActiveSpeaker ==
  [][ /\ (HandlesHead /\ CountOf(Posted, "segments") > 0
            /\ CountOf(Posted, "activeSpeaker") > 0)
         => /\ Len(Posted) = 2
            /\ Posted[1].type = "segments"
            /\ Posted[2].type = "activeSpeaker"
            /\ Posted[1].payload[1].speakerId = eng.currentSpeakerId
            /\ Posted[2].payload.speakerId = eng'.currentSpeakerId
      /\ (activeSpeaker' # activeSpeaker /\ activeSpeaker # 0 /\ activeSpeaker' # 0)
         => \E i \in 1..Len(callerSegments) :
               callerSegments[i].speakerId = activeSpeaker ]_vars

\* The hook has shown S2 as active after the caller got the segment of S1.
C31_Witness ==
  /\ activeSpeaker = 2
  /\ Len(callerSegments) = 1
  /\ callerSegments[1].speakerId = 1
  /\ callerSegments[1].endMs = eng.currentSegmentStartMs

\* A ping is queued at the live worker behind an audio frame.
PingBehindAudio ==
  /\ WorkerAlive
  /\ \E i, j \in 1..Len(toWorker) :
        i < j /\ toWorker[i].type = "audio" /\ toWorker[j].type = "ping"

\* C32: the hook does not restart a live worker whose unanswered ping is
\* waiting behind audio frames.
C32_BacklogNeverRestarts ==
  [][ hist'.totalRestarts > hist.totalRestarts => ~PingBehindAudio ]_vars

\* The heartbeat callback of timer t runs in this step and finds its last
\* ping answered.
AnsweredTick(t) ==
  /\ t \in DOMAIN timers
  /\ timers[t].gotPong
  /\ t \in DOMAIN timers'
  /\ ~timers'[t].gotPong

\* C33: a heartbeat tick that finds the last ping answered posts a ping to the
\* worker and restarts nothing; the restart counter grows and a restart
\* happens only on a tick that finds a ping unanswered, so while every ping is
\* answered in time the counter stays 0.
C33_AnsweredPingsNoRestart ==
  [][ /\ \A t \in DOMAIN timers :
           AnsweredTick(t)
             => /\ t \in wLive => toWorker' = Append(toWorker, [type |-> "ping"])
                /\ restartAttemptsRef' = restartAttemptsRef
                /\ nextId' = nextId
                /\ wLive' = wLive
                /\ hist'.totalRestarts = hist.totalRestarts
      /\ (restartAttemptsRef' > restartAttemptsRef
            \/ hist'.totalRestarts > hist.totalRestarts)
         => \E t \in DOMAIN timers : ~timers[t].gotPong ]_vars

\* A pong has been handled and the next tick has sent another ping, with no
\* restart so far.
C33_Witness ==
  /\ hist.answered
  /\ hist.totalRestarts = 0
  /\ restartAttemptsRef = 0
  /\ WorkerAlive
  /\ nextId \in DOMAIN timers
  /\ ~timers[nextId].gotPong
  /\ toWorker # << >>
  /\ toWorker[Len(toWorker)].type = "ping"

\* C34: at most one worker and at most one heartbeat timer of the hook are
\* live, and while the session is off (stream, enabled flag or start time
\* missing, or the component unmounted) no worker, timer or worklet node is.
C34_OneWorkerOneTimer ==
  /\ Cardinality(wLive) <= 1
  /\ Cardinality(DOMAIN timers) <= 1
  /\ (gen > 0 /\ ~props.active)
       => (wLive = {} /\ DOMAIN timers = {} /\ workletNodeRef = 0 /\ workerRef = 0)

\* A restart has replaced the first worker and its timer by new ones.
C34_Witness ==
  /\ hist.totalRestarts > 0
  /\ wLive = {nextId}
  /\ DOMAIN timers = {nextId}
  /\ nextId > 1

\* A start() of a cancelled effect run resumes in this step.
CancelledStartResumes ==
  \E s \in pending : s.gen # gen /\ pending' = pending \ {s}

\* C35: a start() whose effect run has been cancelled, when it resumes (its
\* module load failed or not), leaves the worker, the worklet node and the
\* heartbeat timer of the later start() as they are.
C35_CancelledStartHarmless ==
  [][ CancelledStartResumes
      => /\ wLive' = wLive
         /\ timers' = timers
         /\ workerRef' = workerRef
         /\ workletNodeRef' = workletNodeRef
         /\ heartbeatIntervalRef' = heartbeatIntervalRef ]_vars

\* C36: in the same-thread hook, once a speaker model exists, detectSpeaker
\* adds a model only when the best similarity of the window to the existing
\* models is below 1 - SPEAKER_CHANGE_THRESHOLD and fewer than expectedSpeakers
\* models exist; a window at least that similar to a model is assigned to
\* the best matching model.
C36_NewModelOnlyWhenDissimilar ==
  LET d == same.detected
      best == BestMatch(d.models, d.window)
  IN (d.id # 0 /\ Len(d.models) >= 1) =>
       /\ d.id > Len(d.models) =>
            /\ best.similarity < SimilarityOne - SPEAKER_CHANGE_THRESHOLD
            /\ Len(d.models) < d.expectedSpeakers
       /\ best.similarity >= SimilarityOne - SPEAKER_CHANGE_THRESHOLD =>
            d.id = best.match

\* C37: in the same-thread hook, every call of endCurrentSegment on an open
\* segment appends it to the segment list exactly when endMs - startMs >=
\* MIN_SEGMENT_DURATION_MS, and leaves no segment open either way.
C37_KeptIffAtLeastMin ==
  \A e \in same.ended :
     /\ e.kept <=> e.duration >= MIN_SEGMENT_DURATION_MS
     /\ ~e.open

\* A segment of exactly the minimum was kept and one of a millisecond less
\* was dropped.
C37_Witness ==
  /\ [duration |-> MIN_SEGMENT_DURATION_MS, kept |-> TRUE, open |-> FALSE] \in same.ended
  /\ [duration |-> MIN_SEGMENT_DURATION_MS - 1, kept |-> FALSE, open |-> FALSE]
       \in same.ended

\* C38: the same-thread hook never releases the shared audio context more
\* often than it has acquired it.
C38_ReleasesWithinAcquires == same.releases <= same.acquires

\* An end event of the recognition object is handled, with or without an
\* attempt to restart.
RecEnded == rec'.ends = rec.ends + 1
RecRestarted == rec'.attempts = rec.attempts + 1

\* C39 as stated: onend restarts the recognition exactly when the listening
\* intent is set; after stopListening() or an error other than no-speech and
\* audio-capture the following onend never restarts; any other end restarts.
C39_NoRestartAfterStopOrError ==
  [][ RecEnded => /\ RecRestarted <=> rec.listeningIntentRef
                  /\ rec.halted => ~RecRestarted
                  /\ ~rec.halted => RecRestarted ]_vars

\* C39, amended: onend restarts the recognition exactly when the listening
\* intent is set; after stopListening() or an error other than no-speech and
\* audio-capture the following onend does not restart unless startListening()
\* was called in between; any end not preceded by them restarts.
C39_RestartIffIntent ==
  [][ RecEnded => /\ RecRestarted <=> rec.listeningIntentRef
                  /\ (rec.halted /\ ~rec.resumed) => ~RecRestarted
                  /\ ~rec.halted => RecRestarted ]_vars

\* An end after stopListening() or such an error, with startListening()
\* called in between, was followed by a restart.
C39_Witness ==
  rec.lastEnd = [halted |-> TRUE, resumed |-> TRUE, intent |-> TRUE, restarted |-> TRUE]

=============================================================================
